---- MODULE Spec2Model ----
(***************************************************************************)
(* Model of producer/producer.py: the PriceSimulator random walk, the      *)
(* generate_trades generator and the driver loop of main() in dry-run and  *)
(* in network (Kafka) mode.                                                *)
(*                                                                         *)
(* Prices and volumes are fixed-point decimals with 9 digits after the     *)
(* point, one digit more than the 8 digits the records are rounded to.     *)
(* A volume is an integer number of 1e-9 units.  A price is a record       *)
(* [w, f] standing for w * 1e-4 + f * 1e-9 with 0 <= f < Frac, so that the *)
(* starting prices of the source fit the integers of the model checker.    *)
(* The wall-clock field exchange_time of a record is left out.             *)
(***************************************************************************)
EXTENDS Integers, Sequences, FiniteSets, TLC

\* ------------------------------------------------------------------ bounds
\* Largest configured --count explored; an unlimited run (count = 0) is cut
\* off after MaxTicks generated records.
MaxCount == 2
MaxTicks == MaxCount + 1

\* ------------------------------------------------------- program constants
RoundDigits == 8            \* round(..., 8)
FloorInv    == 10000        \* the floor 0.0001 is 1 / 10000
MinTradeId  == 1000000      \* random.randint(1000000, 9999999)
MaxTradeId  == 9999999
VolumeScaleInv == 10        \* lognormvariate(0, 1) * 0.1

UnitsPerOne == 10 ^ (RoundDigits + 1)   \* 1e-9 units in 1.0
Frac        == UnitsPerOne \div FloorInv \* 1e-9 units in 1e-4
RoundStep   == UnitsPerOne \div (10 ^ RoundDigits) \* 1e-9 units in 1e-8

\* ------------------------------------------------------- decimal helpers
\* The price whole + tenThousandths * 1e-4 + nano * 1e-9.
Price(whole, tenThousandths, nano) ==
    [w |-> whole * FloorInv + tenThousandths, f |-> nano]

PriceFloor == Price(0, 1, 0)

Less(p, q) == p.w < q.w \/ (p.w = q.w /\ p.f < q.f)

\* max(a, b) on prices
MaxPriceOf(p, q) == IF Less(p, q) THEN q ELSE p

\* p * (1 + change) for change = changeHalves / 2; \div and % round towards
\* minus infinity, so a negative product is a price below zero.
Times(p, changeHalves) ==
    LET n   == 2 + changeHalves
        tw  == p.w * n
        tf  == p.f * n
        w1  == tw \div 2
        f1  == ((tw % 2) * Frac + tf) \div 2
    IN  [w |-> w1 + (f1 \div Frac), f |-> f1 % Frac]

\* round(x, 8) of a number of 1e-9 units: to the nearest multiple of 1e-8,
\* ties to the even neighbour.
RoundInt(x) ==
    LET q  == x \div RoundStep
        r  == x % RoundStep
        up == (2 * r > RoundStep) \/ (2 * r = RoundStep /\ q % 2 = 1)
    IN  RoundStep * (IF up THEN q + 1 ELSE q)

\* round(price, 8)
RoundPrice(p) ==
    LET f8 == RoundInt(p.f)
    IN  IF f8 >= Frac THEN [w |-> p.w + 1, f |-> f8 - Frac]
                      ELSE [w |-> p.w, f |-> f8]

\* ------------------------------------------------------------ random draws
\* The draws are a few representatives of the support of each distribution.
\* random.gauss(0, volatility): the relative change, in halves (a fall that
\* takes the product below the floor, and a rise).
Changes == {-3, 1}
\* random.lognormvariate(0, 1): a positive number, in 1e-8 units (4e-8, 6e-8
\* and 1.0).
LogNormalDraws == {4, 6, 100000000}
Sides == {"buy", "sell"}
\* random.uniform(10, 1000) for a symbol the table does not know.
FallbackPrices == {Price(10, 0, 1), Price(1000, 0, 0)}
\* random.randint(MinTradeId, MaxTradeId)
InitialTradeIds == {MinTradeId, MaxTradeId}

\* --symbols
Symbols == {"DOGE/USD", "FOO/USD"}

\* ------------------------------------------------------------- simulator
initial_prices ==
    [s \in {"BTC/USD", "ETH/USD", "SOL/USD", "DOGE/USD", "XRP/USD", "ADA/USD"} |->
        CASE s = "BTC/USD"  -> Price(45000, 0, 0)
          [] s = "ETH/USD"  -> Price(2500, 0, 0)
          [] s = "SOL/USD"  -> Price(100, 0, 0)
          [] s = "DOGE/USD" -> Price(0, 800, 0)
          [] s = "XRP/USD"  -> Price(0, 5500, 0)
          [] s = "ADA/USD"  -> Price(0, 4500, 0)]

\* PriceSimulator.__init__
PriceSimulator(symbol, initial_price, id) ==
    [symbol |-> symbol, price |-> initial_price, trade_id |-> id]

\* initial_prices.get(symbol, random.uniform(10, 1000))
InitialPrices(symbol) ==
    IF symbol \in DOMAIN initial_prices THEN {initial_prices[symbol]}
                                        ELSE FallbackPrices

\* create_simulators: all the dictionaries it can return for the symbols.
CreateSimulators ==
    { [s \in Symbols |-> PriceSimulator(s, prices[s], ids[s])] :
        prices \in { pr \in [Symbols -> UNION {InitialPrices(s) : s \in Symbols}] :
                        \A s \in Symbols : pr[s] \in InitialPrices(s) },
        ids \in [Symbols -> InitialTradeIds] }

\* (mutant) the random-walk step without the clamp
ClampedPriceNone(p, change) == Times(p, change)

\* self.price *= (1 + change); self.price = max(self.price, 0.0001)
ClampedPrice(p, change) == MaxPriceOf(Times(p, change), PriceFloor)

\* (mutant) the counter skips a value
NextTradeIdSkip(id) == id + 2

\* self.trade_id += 1
NextTradeId(id) == id + 1

\* lognormvariate(0, 1) * 0.1, in 1e-9 units.
Volume(draw) == (draw * RoundStep) \div VolumeScaleInv

\* PriceSimulator.next_trade: the simulator afterwards and the record.
NextTrade(sim, change, draw, side) ==
    LET price    == ClampedPrice(sim.price, change)
        volume   == Volume(draw)
        trade_id == NextTradeId(sim.trade_id)
    IN  [sim   |-> [sim EXCEPT !.price = price, !.trade_id = trade_id],
         trade |-> [symbol   |-> sim.symbol,
                    price    |-> RoundPrice(price),
                    volume   |-> RoundInt(volume),
                    trade_id |-> trade_id,
                    side     |-> side]]

NoTrade == [symbol |-> "none", price |-> Price(0, 0, 0), volume |-> 0,
            trade_id |-> 0, side |-> "none"]

\* ---------------------------------------------------------------- driver
VARIABLES
    dry_run,        \* args.dry_run
    count,          \* args.count
    pc,             \* the statement of main() about to run
    simulators,     \* symbol -> PriceSimulator
    trade,          \* the loop variable: the record last yielded
    i,              \* the enumerate() index of the dry-run loop, -1 before it
    sent,           \* the sent counter of the network loop
    producer,       \* "none", "open", "failed" (KafkaError) or "closed"
    generated,      \* calls of next_trade so far
    handed,         \* records passed to producer.send
    printed,        \* records printed to standard output
    slept,          \* pacing sleeps completed
    checks,         \* count checks executed
    flushCalls,     \* calls of producer.flush
    closeCalls,     \* calls of producer.close
    summary,        \* the total of the "Interrupted. Sent ..." line, -1 if none
    reported,       \* the "Failed to connect" lines were printed
    exitBy,         \* why the loop was left: "none", "count", "interrupt", "error"
    interrupts,     \* KeyboardInterrupts delivered
    interruptedAt,  \* pc at the first KeyboardInterrupt, "none" before
    lastId          \* symbol -> trade id of the record its simulator returned
                    \* last, 0 if it has returned none

vars == <<dry_run, count, pc, simulators, trade, i, sent, producer, generated,
          handed, printed, slept, checks, flushCalls, closeCalls, summary,
          reported, exitBy, interrupts, interruptedAt, lastId>>

history == <<generated, handed, printed, slept, checks, flushCalls, closeCalls,
             summary, reported, lastId>>

DryPcs  == {"dry_gen", "dry_print", "dry_sleep", "dry_check"}
LoopPcs == {"gen", "send", "inc", "sleep", "check"}

Init ==
    /\ dry_run \in BOOLEAN
    /\ count \in 0..MaxCount
    /\ pc = "start"
    /\ simulators \in CreateSimulators
    /\ trade = NoTrade
    /\ i = -1
    /\ sent = 0
    /\ producer = "none"
    /\ generated = 0 /\ handed = 0 /\ printed = 0 /\ slept = 0 /\ checks = 0
    /\ flushCalls = 0 /\ closeCalls = 0
    /\ summary = -1
    /\ reported = FALSE
    /\ exitBy = "none"
    /\ interrupts = 0
    /\ interruptedAt = "none"
    /\ lastId = [s \in Symbols |-> 0]

\* (mutant) the dry-run branch is missing
FirstPcAlwaysConnect(dry) == "connect"

\* if args.dry_run: ... else connect
FirstPc(dry) == IF dry THEN "dry_gen" ELSE "connect"

\* (mutant) the except clause does not return
AfterConnectNoReturn(outcome) == "setup"

\* try: KafkaProducer(...) except KafkaError: ...; return
AfterConnect(outcome) == IF outcome = "ok" THEN "setup" ELSE "done"

\* (mutant) the network loop checks the count before it sleeps
NextPcCheckFirst(p) ==
    CASE p = "setup"     -> "gen"
      [] p = "gen"       -> "send"
      [] p = "send"      -> "inc"
      [] p = "inc"       -> "check"
      [] p = "check"     -> "sleep"
      [] p = "sleep"     -> "gen"
      [] p = "dry_gen"   -> "dry_print"
      [] p = "dry_print" -> "dry_sleep"
      [] p = "dry_sleep" -> "dry_check"
      [] p = "dry_check" -> "dry_gen"
      [] p = "except"    -> "finally"
      [] p = "finally"   -> "close"
      [] p = "close"     -> "done"

\* The statement that follows p when p completes without leaving the loop.
NextPc(p) ==
    CASE p = "setup"     -> "gen"
      [] p = "gen"       -> "send"
      [] p = "send"      -> "inc"
      [] p = "inc"       -> "sleep"
      [] p = "sleep"     -> "check"
      [] p = "check"     -> "gen"
      [] p = "dry_gen"   -> "dry_print"
      [] p = "dry_print" -> "dry_sleep"
      [] p = "dry_sleep" -> "dry_check"
      [] p = "dry_check" -> "dry_gen"
      [] p = "except"    -> "finally"
      [] p = "finally"   -> "close"
      [] p = "close"     -> "done"

\* if args.count and i >= args.count - 1: break
DryLimitReached(c, idx) == c # 0 /\ idx >= c - 1

\* (mutant) the limit is tested with > instead of >=
LimitReachedLate(c, n) == c # 0 /\ n > c

\* if args.count and sent >= args.count: break
LimitReached(c, n) == c # 0 /\ n >= c

\* (mutant) the interrupt is swallowed and the statement at p runs next
InterruptTargetIgnored(p) == p

\* Where a KeyboardInterrupt raised at p takes control: inside the try block
\* to the except clause, inside the except clause to the finally block,
\* anywhere else out of main().
InterruptTarget(p) ==
    IF p \in LoopPcs THEN "except"
    ELSE IF p = "except" THEN "finally"
    ELSE "done"

\* Where an exception other than KeyboardInterrupt raised at p takes control.
ErrorTarget(p) == IF p \in LoopPcs THEN "finally" ELSE "done"

Start ==
    /\ pc = "start"
    /\ pc' = FirstPc(dry_run)
    /\ UNCHANGED <<dry_run, count, simulators, trade, i, sent, producer, history,
                   exitBy, interrupts, interruptedAt>>

Connect(outcome) ==
    /\ pc = "connect"
    /\ producer' = IF outcome = "ok" THEN "open" ELSE "failed"
    /\ reported' = (outcome # "ok")
    /\ pc' = AfterConnect(outcome)
    /\ UNCHANGED <<dry_run, count, simulators, trade, i, sent, generated, handed,
                   printed, slept, checks, flushCalls, closeCalls, summary,
                   exitBy, interrupts, interruptedAt, lastId>>

Setup ==
    /\ pc = "setup"
    /\ sent' = 0
    /\ pc' = NextPc(pc)
    /\ UNCHANGED <<dry_run, count, simulators, trade, i, producer, history,
                   exitBy, interrupts, interruptedAt>>

\* next(trade_gen): one round of generate_trades.
GenerateTrades(symbol, change, draw, side) ==
    LET r == NextTrade(simulators[symbol], change, draw, side)
    IN  /\ generated < MaxTicks
        /\ simulators' = [simulators EXCEPT ![symbol] = r.sim]
        /\ trade' = r.trade
        /\ lastId' = [lastId EXCEPT ![symbol] = r.trade.trade_id]
        /\ generated' = generated + 1

Gen ==
    /\ pc = "gen"
    /\ \E symbol \in Symbols, change \in Changes, draw \in LogNormalDraws,
          side \in Sides : GenerateTrades(symbol, change, draw, side)
    /\ pc' = NextPc(pc)
    /\ UNCHANGED <<dry_run, count, i, sent, producer, handed, printed, slept,
                   checks, flushCalls, closeCalls, summary, reported, exitBy,
                   interrupts, interruptedAt>>

Send ==
    /\ pc = "send"
    /\ handed' = handed + 1
    /\ pc' = NextPc(pc)
    /\ UNCHANGED <<dry_run, count, simulators, trade, i, sent, producer,
                   generated, printed, slept, checks, flushCalls, closeCalls,
                   summary, reported, exitBy, interrupts, interruptedAt, lastId>>

Inc ==
    /\ pc = "inc"
    /\ sent' = sent + 1
    /\ pc' = NextPc(pc)
    /\ UNCHANGED <<dry_run, count, simulators, trade, i, producer, history,
                   exitBy, interrupts, interruptedAt>>

Sleep ==
    /\ pc = "sleep"
    /\ slept' = slept + 1
    /\ pc' = NextPc(pc)
    /\ UNCHANGED <<dry_run, count, simulators, trade, i, sent, producer,
                   generated, handed, printed, checks, flushCalls, closeCalls,
                   summary, reported, exitBy, interrupts, interruptedAt, lastId>>

Check ==
    /\ pc = "check"
    /\ checks' = checks + 1
    /\ IF LimitReached(count, sent)
          THEN pc' = "finally" /\ exitBy' = "count"
          ELSE pc' = NextPc(pc) /\ exitBy' = exitBy
    /\ UNCHANGED <<dry_run, count, simulators, trade, i, sent, producer,
                   generated, handed, printed, slept, flushCalls, closeCalls,
                   summary, reported, interrupts, interruptedAt, lastId>>

DryGen ==
    /\ pc = "dry_gen"
    /\ \E symbol \in Symbols, change \in Changes, draw \in LogNormalDraws,
          side \in Sides : GenerateTrades(symbol, change, draw, side)
    /\ i' = i + 1
    /\ pc' = NextPc(pc)
    /\ UNCHANGED <<dry_run, count, sent, producer, handed, printed, slept,
                   checks, flushCalls, closeCalls, summary, reported, exitBy,
                   interrupts, interruptedAt>>

DryPrint ==
    /\ pc = "dry_print"
    /\ printed' = printed + 1
    /\ pc' = NextPc(pc)
    /\ UNCHANGED <<dry_run, count, simulators, trade, i, sent, producer,
                   generated, handed, slept, checks, flushCalls, closeCalls,
                   summary, reported, exitBy, interrupts, interruptedAt, lastId>>

DrySleep ==
    /\ pc = "dry_sleep"
    /\ slept' = slept + 1
    /\ pc' = NextPc(pc)
    /\ UNCHANGED <<dry_run, count, simulators, trade, i, sent, producer,
                   generated, handed, printed, checks, flushCalls, closeCalls,
                   summary, reported, exitBy, interrupts, interruptedAt, lastId>>

DryCheck ==
    /\ pc = "dry_check"
    /\ checks' = checks + 1
    /\ IF DryLimitReached(count, i)
          THEN pc' = "done" /\ exitBy' = "count"
          ELSE pc' = NextPc(pc) /\ exitBy' = exitBy
    /\ UNCHANGED <<dry_run, count, simulators, trade, i, sent, producer,
                   generated, handed, printed, slept, flushCalls, closeCalls,
                   summary, reported, interrupts, interruptedAt, lastId>>

\* except KeyboardInterrupt: print(f"\nInterrupted. Sent {sent} trades total.")
Except ==
    /\ pc = "except"
    /\ summary' = sent
    /\ pc' = NextPc(pc)
    /\ UNCHANGED <<dry_run, count, simulators, trade, i, sent, producer,
                   generated, handed, printed, slept, checks, flushCalls,
                   closeCalls, reported, exitBy, interrupts, interruptedAt,
                   lastId>>

\* finally: producer.flush()
Flush ==
    /\ pc = "finally"
    /\ flushCalls' = flushCalls + 1
    /\ pc' = NextPc(pc)
    /\ UNCHANGED <<dry_run, count, simulators, trade, i, sent, producer,
                   generated, handed, printed, slept, checks, closeCalls,
                   summary, reported, exitBy, interrupts, interruptedAt, lastId>>

\* producer.close(); print("Producer closed.")
Close ==
    /\ pc = "close"
    /\ closeCalls' = closeCalls + 1
    /\ producer' = "closed"
    /\ pc' = NextPc(pc)
    /\ UNCHANGED <<dry_run, count, simulators, trade, i, sent, generated,
                   handed, printed, slept, checks, flushCalls, summary,
                   reported, exitBy, interrupts, interruptedAt, lastId>>

\* A KeyboardInterrupt is raised in the main thread before the statement at
\* pc takes effect.
Interrupt ==
    /\ pc # "done"
    /\ interrupts' = interrupts + 1
    /\ interruptedAt' = IF interrupts = 0 THEN pc ELSE interruptedAt
    /\ exitBy' = IF exitBy = "none" THEN "interrupt" ELSE exitBy
    /\ pc' = InterruptTarget(pc)
    /\ UNCHANGED <<dry_run, count, simulators, trade, i, sent, producer, history>>

\* producer.send, print or time.sleep raises an exception.
Error ==
    /\ pc \in {"send", "sleep", "dry_print", "dry_sleep"}
    /\ exitBy' = "error"
    /\ pc' = ErrorTarget(pc)
    /\ UNCHANGED <<dry_run, count, simulators, trade, i, sent, producer, history,
                   interrupts, interruptedAt>>

Step ==
    \/ Start
    \/ \E outcome \in {"ok", "KafkaError"} : Connect(outcome)
    \/ Setup
    \/ Gen
    \/ Send
    \/ Inc
    \/ Sleep
    \/ Check
    \/ DryGen
    \/ DryPrint
    \/ DrySleep
    \/ DryCheck
    \/ Except
    \/ Flush
    \/ Close

Next == Step \/ Interrupt \/ Error

Spec == Init /\ [][Next]_vars

\* The interpreter keeps executing the statements of main().
FairSpec == Spec /\ WF_vars(Step)

\* ------------------------------------------------------------------ claims
\* Records the sink has been given, by producer.send or by print.
delivered == handed + printed

NoFailure == interrupts = 0 /\ exitBy # "error" /\ producer # "failed"

C1_Safety ==
    /\ (count >= 1 /\ NoFailure) => delivered <= count
    /\ (count >= 1 /\ NoFailure /\ pc = "done")
          => (delivered = count /\ exitBy = "count")
    /\ exitBy = "count" => (count >= 1 /\ delivered = count)

\* C1: with count N >= 1 and no interruption or sink failure the driver, in
\* either mode, never delivers more than N records, reaches the end of main()
\* and has then delivered exactly N, leaving the loop because of the count;
\* the loop is left because of the count only if count >= 1, never when
\* count = 0.
C1_ExactlyCountThenStopped ==
    /\ [](C1_Safety)
    /\ (count >= 1) ~> (pc = "done")

C1_Witness ==
    /\ ~dry_run /\ count = MaxCount /\ NoFailure
    /\ pc = "done" /\ exitBy = "count" /\ handed = MaxCount

\* C2: whenever a simulator returns a record, the record's trade_id is the
\* simulator's counter after the increment, the counter has grown by exactly
\* 1, the id is 1 more than the id of the record this simulator returned the
\* time before, and the counters of the other simulators are untouched.
C2_TradeIdsConsecutive ==
    [][\A s \in Symbols :
          (generated' = generated + 1 /\ trade'.symbol = s) =>
             /\ trade'.trade_id = simulators'[s].trade_id
             /\ simulators'[s].trade_id = simulators[s].trade_id + 1
             /\ lastId[s] # 0 => trade'.trade_id = lastId[s] + 1
             /\ \A t \in Symbols \ {s} :
                   simulators'[t].trade_id = simulators[t].trade_id]_vars

C2_Witness ==
    \E s \in Symbols :
        /\ trade.symbol = s
        /\ \E id \in InitialTradeIds : trade.trade_id = id + 2
        /\ \E t \in Symbols \ {s} : lastId[t] # 0

\* C3: in network mode, once the producer is connected, main() ends with
\* flush and close each called exactly once, and no record is sent after the
\* flush.
C3_FlushCloseOnce ==
    /\ (pc = "done" /\ producer \in {"open", "closed"})
          => (flushCalls = 1 /\ closeCalls = 1)
    /\ flushCalls >= 1 => pc \in {"close", "done"}

\* C4 as stated: every simulator's price is strictly greater than the floor.
C4_StrictlyAboveFloor ==
    \A s \in Symbols : Less(PriceFloor, simulators[s].price)

\* C4 (amended): every simulator's price is greater than or equal to the
\* floor 0.0001, after create_simulators and after every next_trade.
C4_AtLeastFloor ==
    \A s \in Symbols : ~Less(simulators[s].price, PriceFloor)

C4_Witness ==
    \E s \in Symbols : generated >= 1 /\ simulators[s].price = PriceFloor

\* C5: every record returned by next_trade has price > 0 and volume > 0
\* after the rounding to 8 decimal places.
C5_PositiveAfterRounding ==
    trade # NoTrade =>
        (Less(Price(0, 0, 0), trade.price) /\ trade.volume > 0)

\* C6 (network mode, one interruption, received inside the loop): main()
\* ends with flush and close done and with a summary line whose total is the
\* number of records handed to producer.send.
C6_GracefulSummary ==
    (~dry_run /\ pc = "done" /\ interrupts = 1 /\ interruptedAt \in LoopPcs)
        => (flushCalls = 1 /\ closeCalls = 1 /\ summary = handed)

\* C7 as stated: when the loop is left for the except clause, the current
\* iteration has been completed: every generated record has been sent,
\* counted, slept for and checked.
C7_IterationCompleted ==
    pc = "except" =>
        (generated = handed /\ handed = sent /\ sent = slept /\ slept = checks)

\* C7 (amended): an interruption inside the network loop takes control
\* straight to the except clause; once an interruption has been delivered no
\* record is generated, sent, printed or counted, and no pacing sleep or
\* count check is run any more; close is only ever called after flush.
C7_ImmediateExit ==
    [][/\ (interrupts' > interrupts /\ pc \in LoopPcs) => pc' = "except"
       /\ interrupts >= 1 =>
             UNCHANGED <<generated, handed, printed, sent, slept, checks>>
       /\ closeCalls' > closeCalls => flushCalls' >= 1]_vars

C7_Witness ==
    /\ interruptedAt = "sleep" /\ interrupts = 1 /\ pc = "done"
    /\ handed = slept + 1 /\ summary = sent
    /\ flushCalls = 1 /\ closeCalls = 1

\* C8: when the connection fails, the failure is reported and main() ends:
\* next_trade was never called, nothing was sent or printed, and flush and
\* close were not called.
C8_ConnectFailure ==
    producer = "failed" =>
        /\ reported /\ pc = "done"
        /\ generated = 0 /\ trade = NoTrade
        /\ \A s \in Symbols : lastId[s] = 0
        /\ handed = 0 /\ printed = 0
        /\ flushCalls = 0 /\ closeCalls = 0

C8_Witness == producer = "failed" /\ reported /\ pc = "done" /\ interrupts = 0

\* C9: in dry-run mode no producer is ever constructed and send, flush and
\* close are never called; every record generated is printed before the
\* pacing sleep that follows it.
C9_DryRunNoSink ==
    dry_run =>
        /\ producer = "none"
        /\ pc \in DryPcs \cup {"start", "done"}
        /\ handed = 0 /\ flushCalls = 0 /\ closeCalls = 0
        /\ printed <= generated /\ generated <= printed + 1
        /\ pc \in {"dry_sleep", "dry_check"} => printed = generated

C9_Witness ==
    dry_run /\ pc = "done" /\ exitBy = "count" /\ printed = MaxCount

\* C10: a tick runs generate, deliver, suspend, check in this order: the
\* counts of the four steps never differ by more than 1 and fall behind each
\* other in that order, a record is generated only when every earlier one
\* has been delivered, and each step starts right after the one before it.
C10_TickOrder ==
    /\ generated >= delivered /\ delivered >= slept /\ slept >= checks
    /\ checks >= generated - 1
    /\ pc \in {"gen", "dry_gen"} => (generated = delivered /\ slept = checks)
    /\ pc \in {"send", "dry_print"} => generated = delivered + 1
    /\ pc \in {"sleep", "dry_sleep"} => delivered = slept + 1
    /\ pc \in {"check", "dry_check"} => slept = checks + 1

C10_Witness ==
    pc = "send" /\ generated = 2 /\ handed = 1 /\ slept = 1 /\ checks = 1

====
